---- MODULE Spec2Model ----
(***************************************************************************)
(* A model of the typestate builder generator of bon-macros:               *)
(*   builder/builder_gen/setter_methods.rs  (setter synthesis, impl Into   *)
(*                                           eligibility)                  *)
(*   builder/item_impl.rs                   (the #[bon] impl block         *)
(*                                           pipeline)                     *)
(* together with the builder values the generated code describes: a state  *)
(* tuple of Unset / Set markers, one slot per field, and the setter calls  *)
(* the generated impl blocks admit.                                        *)
(***************************************************************************)
EXTENDS Integers, Sequences, FiniteSets, TLC

\* Bounds of the model.
MaxSegs == 2
MaxFields == 3
MaxGenFields == 2
MaxItems == 3

(***************************************************************************)
(* Syntax: types as syn sees them.                                         *)
(***************************************************************************)

\* A path segment: an identifier and its arguments (syn::PathArguments):
\* "None", "Angle" (<..>, possibly with no argument inside) or "Paren".
Seg(ident, brackets, args) == [ident |-> ident, brackets |-> brackets, args |-> args]

\* syn::Type::Path, with its qself and leading colon.
PathTy(qself, colon, segs) == [kind |-> "Path", qself |-> qself, colon |-> colon, segs |-> segs]

\* Any other syn::Type (a reference, a tuple, ...).
OtherTy(kind) == [kind |-> kind, qself |-> FALSE, colon |-> FALSE, segs |-> <<>>]

SimpleTy(name) == PathTy(FALSE, FALSE, <<Seg(name, "None", <<>>)>>)
GenericTy(name, arg) == PathTy(FALSE, FALSE, <<Seg(name, "Angle", <<arg>>)>>)

\* Results of the fallible functions whose success carries a bool.
OkBool(v) == [ok |-> TRUE, value |-> v, error |-> "none"]
ErrBool(e) == [ok |-> FALSE, value |-> FALSE, error |-> e]

\* ty.as_path()
as_path(ty) == ty.kind = "Path"

\* syn::PathArguments::is_empty
arguments_is_empty(seg) ==
    \/ seg.brackets = "None"
    \/ seg.brackets = "Angle" /\ seg.args = <<>>

\* any(|segment| !segment.arguments.is_empty())
has_generic_params(ty) == \E k \in 1..Len(ty.segs) : ~arguments_is_empty(ty.segs[k])

\* syn::Path::get_ident: <<ident>> for a path that is one bare identifier, <<>> otherwise
get_ident(ty) ==
    IF ~ty.colon /\ Len(ty.segs) = 1 /\ ty.segs[1].brackets = "None"
    THEN <<ty.segs[1].ident>>
    ELSE <<>>

\* generics.params filtered by as_type_param, collected into a set of idents
type_params(generics) == {p.ident : p \in {q \in generics : q.kind = "Type"}}

primitive_types ==
    {"bool", "char", "f32", "f64", "i8", "i16", "i32", "i64", "i128", "isize",
     "u8", "u16", "u32", "u64", "u128", "usize"}

\* Mutant: the primitive is matched against the whole path, not its last segment.
ends_with_segment_exact(ty, name) ==
    Len(ty.segs) = 1 /\ ty.segs[1].ident = name

\* path.ends_with_segment(name): the last segment is named `name`
ends_with_segment(ty, name) ==
    Len(ty.segs) > 0 /\ ty.segs[Len(ty.segs)].ident = name

type_qualifies_for_into(generics, ty) ==
    IF ~as_path(ty) THEN FALSE
    ELSE IF ty.qself THEN FALSE
    ELSE IF has_generic_params(ty) THEN FALSE
    ELSE IF get_ident(ty) # <<>> /\ get_ident(ty)[1] \in type_params(generics) THEN FALSE
    ELSE \A primitive \in primitive_types : ~ends_with_segment(ty, primitive)

\* Mutant: a redundant override is accepted silently.
field_qualifies_for_into_lenient(generics, field, ty) ==
    IF field.into = <<>>
    THEN OkBool(type_qualifies_for_into(generics, ty))
    ELSE OkBool(field.into[1])

\* field.params.into is <<>> (no override) or <<b>>
field_qualifies_for_into(generics, field, ty) ==
    IF field.into = <<>>
    THEN OkBool(type_qualifies_for_into(generics, ty))
    ELSE LET override_value == field.into[1]
             default_value == type_qualifies_for_into(generics, ty)
         IN  IF default_value # override_value
             THEN OkBool(override_value)
             ELSE ErrBool(IF default_value
                          THEN "redundant: already qualifies"
                          ELSE "redundant: already doesn't qualify")

(***************************************************************************)
(* Tokens the generator emits.                                             *)
(***************************************************************************)

\* Identifiers that get rewritten are sequences of characters.
Underscore == "_"
MaybePrefix == <<"m", "a", "y", "b", "e", "_">>

NoTy == OtherTy("None")

\* State markers: bon::private::Set<T>, the unset marker, and __State::<Assoc>.
SetMarker(ty) == [kind |-> "Set", ty |-> ty, assoc |-> <<>>]
UnsetMarker == [kind |-> "Unset", ty |-> NoTy, assoc |-> <<>>]
AssocMarker(a) == [kind |-> "Assoc", ty |-> NoTy, assoc |-> a]

\* Field::set_state_type and Field::unset_state_type
set_state_type(field) == SetMarker(field.ty)
unset_state_type(field) == UnsetMarker

\* Field::as_optional: <<T>> when the field's type is Option<T>, <<>> otherwise
as_optional(field) ==
    LET ty == field.ty IN
    IF /\ as_path(ty) /\ ~ty.qself /\ Len(ty.segs) > 0
       /\ ty.segs[Len(ty.segs)].ident = "Option"
       /\ ty.segs[Len(ty.segs)].brackets = "Angle"
       /\ Len(ty.segs[Len(ty.segs)].args) = 1
    THEN <<ty.segs[Len(ty.segs)].args[1]>>
    ELSE <<>>

\* BuilderGenCtx::field_idents
field_idents(ctx) == [k \in 1..Len(ctx.fields) |-> ctx.fields[k].ident]

\* Results whose success carries tokens.
OkTokens(v) == [ok |-> TRUE, value |-> <<v>>, error |-> "none"]
ErrTokens(e) == [ok |-> FALSE, value |-> <<>>, error |-> e]

\* A setter's parameter type: T, impl Into<T>, Option<T> or Option<impl Into<T>>.
ParamTy(option, impl_into, ty) == [option |-> option, impl_into |-> impl_into, ty |-> ty]

\* A setter's field_init: bon::private::Set::new(<value, converted and wrapped>).
\* conv is "none", "into" (.into()) or "map_into" (.map(Into::into)).
FieldInit(some, conv) == [some |-> some, conv |-> conv]

\* One expression of the struct literal: the field_init, or self.__private_impl.<ident>.
InitExpr(init) == [kind |-> "init", ident |-> <<>>, init |-> init]
SelfExpr(ident) == [kind |-> "self", ident |-> ident, init |-> FieldInit(FALSE, "none")]

\* Mutant: every slot of the struct literal is filled with the new value.
field_exprs_all_init(ctx, field, field_init) ==
    [k \in 1..Len(ctx.fields) |-> InitExpr(field_init)]

\* field_exprs of setter_method
field_exprs(ctx, field, field_init) ==
    [k \in 1..Len(ctx.fields) |->
        IF ctx.fields[k].ident = field.ident
        THEN InitExpr(field_init)
        ELSE SelfExpr(ctx.fields[k].ident)]

\* maybe_receiver_field of setter_method
maybe_receiver_field(ctx) == ctx.receiver

\* FieldSettersCtx::setter_method
setter_method(ctx, field, return_type, method) ==
    [method_name |-> method.method_name,
     fn_params |-> method.fn_params,
     return_type |-> return_type,
     docs |-> IF method.overwrite_docs THEN "see primary" ELSE "field docs",
     receiver_field |-> maybe_receiver_field(ctx),
     field_idents |-> field_idents(ctx),
     field_exprs |-> field_exprs(ctx, field, method.field_init)]

\* FieldSettersCtx::new: strip_prefix('_').unwrap_or(field_ident)
norm_field_ident(field) ==
    IF Len(field.ident) > 0 /\ Head(field.ident) = Underscore
    THEN Tail(field.ident)
    ELSE field.ident

\* FieldSetterMethod
FieldSetterMethod(method_name, fn_params, field_init, overwrite_docs) ==
    [method_name |-> method_name, fn_params |-> fn_params,
     field_init |-> field_init, overwrite_docs |-> overwrite_docs]

\* Mutant: the primary setter of an optional field takes the Option itself.
setters_for_optional_field_wrapped(ctx, field, return_type, inner_type) ==
    LET q == field_qualifies_for_into(ctx.generics, field, inner_type) IN
    IF ~q.ok THEN ErrTokens(q.error)
    ELSE OkTokens(
        <<setter_method(ctx, field, return_type,
              FieldSetterMethod(MaybePrefix \o norm_field_ident(field),
                  ParamTy(TRUE, q.value, inner_type),
                  FieldInit(FALSE, IF q.value THEN "map_into" ELSE "none"), TRUE)),
          setter_method(ctx, field, return_type,
              FieldSetterMethod(norm_field_ident(field),
                  ParamTy(TRUE, q.value, inner_type),
                  FieldInit(FALSE, IF q.value THEN "map_into" ELSE "none"), FALSE))>>)

\* FieldSettersCtx::setters_for_optional_field
setters_for_optional_field(ctx, field, return_type, inner_type) ==
    LET q == field_qualifies_for_into(ctx.generics, field, inner_type) IN
    IF ~q.ok THEN ErrTokens(q.error)
    ELSE OkTokens(
        <<setter_method(ctx, field, return_type,
              FieldSetterMethod(MaybePrefix \o norm_field_ident(field),
                  ParamTy(TRUE, q.value, inner_type),
                  FieldInit(FALSE, IF q.value THEN "map_into" ELSE "none"), TRUE)),
          setter_method(ctx, field, return_type,
              FieldSetterMethod(norm_field_ident(field),
                  ParamTy(FALSE, q.value, inner_type),
                  FieldInit(TRUE, IF q.value THEN "into" ELSE "none"), FALSE))>>)

\* FieldSettersCtx::setter_methods
setter_methods(ctx, field, return_type) ==
    IF as_optional(field) # <<>>
    THEN setters_for_optional_field(ctx, field, return_type, as_optional(field)[1])
    ELSE LET q == field_qualifies_for_into(ctx.generics, field, field.ty) IN
         IF ~q.ok THEN ErrTokens(q.error)
         ELSE OkTokens(
             <<setter_method(ctx, field, return_type,
                   FieldSetterMethod(norm_field_ident(field),
                       ParamTy(FALSE, q.value, field.ty),
                       FieldInit(FALSE, IF q.value THEN "into" ELSE "none"), FALSE))>>)

\* Mutant: every position of the returned state is marked Set.
output_fields_states_all_set(ctx, field) ==
    [k \in 1..Len(ctx.fields) |-> set_state_type(ctx.fields[k])]

\* Mutant: the target position is found by its place in the sorted field names
\* (here: the positions are reversed).
output_fields_states_reordered(ctx, field) ==
    [k \in 1..Len(ctx.fields) |->
        LET other_field == ctx.fields[Len(ctx.fields) + 1 - k] IN
        IF other_field.ident = field.ident
        THEN set_state_type(field)
        ELSE AssocMarker(other_field.state_assoc_type_ident)]

\* output_fields_states of setter_methods_impls_for_field
output_fields_states(ctx, field) ==
    [k \in 1..Len(ctx.fields) |->
        LET other_field == ctx.fields[k] IN
        IF other_field.ident = field.ident
        THEN set_state_type(field)
        ELSE AssocMarker(other_field.state_assoc_type_ident)]

\* format_ident!("__{builder_ident}Set{state_assoc_type_ident}")
output_builder_alias_ident(ctx, field) ==
    <<"_", "_">> \o ctx.builder_ident \o <<"S", "e", "t">> \o field.state_assoc_type_ident

\* Mutant: the impl block of the setters puts no bound on the field's state.
setter_impl_bound_none(field) ==
    [assoc |-> field.state_assoc_type_ident, eq |-> <<>>]

\* impl<__State: BuilderState<Assoc = Unset>>: <<marker>> is the marker required
setter_impl_bound(field) ==
    [assoc |-> field.state_assoc_type_ident, eq |-> <<unset_state_type(field)>>]

\* BuilderGenCtx::setter_methods_impls_for_field
setter_methods_impls_for_field(ctx, field) ==
    LET has_state_var == Len(ctx.fields) > 1
        return_type == [alias |-> output_builder_alias_ident(ctx, field),
                        state_arg |-> has_state_var]
        methods == setter_methods(ctx, field, return_type)
    IN  IF ~methods.ok THEN ErrTokens(methods.error)
        ELSE OkTokens(
            [alias |-> [ident |-> output_builder_alias_ident(ctx, field),
                        state_var |-> has_state_var,
                        tuple |-> output_fields_states(ctx, field)],
             bound |-> setter_impl_bound(field),
             methods |-> methods.value[1]])

(***************************************************************************)
(* The builder the generated code describes.                               *)
(***************************************************************************)

\* Values: a raw value is <<v>>; the wrappers put their tag in front.
Values == {"v1", "v2"}
NoneValue == <<"None">>
SomeOf(x) == <<"Some">> \o x
IntoOf(x) == <<"into">> \o x
SetNew(x) == <<"Set">> \o x
UnsetValue == <<"Unset">>
SelfValue == <<"self">>

\* value.map(Into::into)
MapInto(x) == IF x = NoneValue THEN NoneValue ELSE SomeOf(IntoOf(Tail(x)))

\* The value a field_init expression stores for the argument `value`.
EvalFieldInit(init, value) ==
    LET conv == IF init.conv = "into" THEN IntoOf(value)
                ELSE IF init.conv = "map_into" THEN MapInto(value)
                ELSE value
    IN  SetNew(IF init.some THEN SomeOf(conv) ELSE conv)

\* The arguments a setter's parameter type admits.
Arguments(fn_params) ==
    IF fn_params.option
    THEN {NoneValue} \cup {SomeOf(<<v>>) : v \in Values}
    ELSE {<<v>> : v \in Values}

\* The struct literal of a setter's body, evaluated on the consumed builder.
EvalStructLiteral(method, self_slots, value) ==
    [id \in {method.field_idents[k] : k \in 1..Len(method.field_idents)} |->
        LET k == CHOOSE n \in 1..Len(method.field_idents) : method.field_idents[n] = id
            e == method.field_exprs[k]
        IN  IF e.kind = "init" THEN EvalFieldInit(e.init, value) ELSE self_slots[e.ident]]

\* <State as BuilderState>::Assoc for a state tuple: the marker at the position
\* of the field the associated type is named after.
AssocType(ctx, st, assoc) ==
    st[CHOOSE k \in 1..Len(ctx.fields) : ctx.fields[k].state_assoc_type_ident = assoc]

\* Whether a builder in state `st` has the methods of an impl block with `bound`.
BoundHolds(ctx, st, bound) ==
    IF bound.eq = <<>> THEN TRUE ELSE AssocType(ctx, st, bound.assoc) = bound.eq[1]

\* The alias with __State bound to `st`: the state tuple of the returned builder.
ResolveAlias(ctx, st, alias) ==
    [k \in 1..Len(alias.tuple) |->
        IF alias.tuple[k].kind = "Assoc"
        THEN AssocType(ctx, st, alias.tuple[k].assoc)
        ELSE alias.tuple[k]]

\* The finishing operation exists for the state where every position is Set.
FinishBound(ctx, st) ==
    \A k \in 1..Len(ctx.fields) : st[k] = set_state_type(ctx.fields[k])

(***************************************************************************)
(* State.                                                                  *)
(***************************************************************************)
VARIABLES
    pc,            \* where the run is
    generics,      \* the entity's generic parameters
    fields,        \* the entity's fields, in declaration order
    has_receiver,  \* BuilderGenCtx::receiver.is_some()
    verdict,       \* the result of field_qualifies_for_into
    impls,         \* the setter impl blocks generated, one per field
    state,         \* the builder's state tuple
    slots,         \* the builder's __private_impl fields
    receiver,      \* the builder's __private_impl.receiver
    calls,         \* per field, the setter call that set it
    impl_block,    \* the impl block given to generate
    result,        \* what generate returned
    stages         \* the stages generate went through

vars == <<pc, generics, fields, has_receiver, verdict, impls, state, slots,
          receiver, calls, impl_block, result, stages>>

Ctx == [fields |-> fields, generics |-> generics, receiver |-> has_receiver,
        builder_ident |-> <<"B">>]

(***************************************************************************)
(* Inputs.                                                                 *)
(***************************************************************************)

\* Field::state_assoc_type_ident: a name of the field's own.
state_assoc_type_ident_of(ident) == <<"S">> \o ident

Field(ident, ty, into) ==
    [ident |-> ident, ty |-> ty, into |-> into,
     state_assoc_type_ident |-> state_assoc_type_ident_of(ident)]

\* Field lists of at most n fields with pairwise distinct identifiers.
Entities(F, n) ==
    UNION {{s \in [1..k -> F] :
               \A a, b \in 1..k : a # b => s[a].ident # s[b].ident} : k \in 1..n}

\* The builder runs: the k-th field is named IdentNames[k] (not in alphabetic
\* order) and takes any of BuilderTypes, with no `into` override.
IdentNames == <<"c", "a", "d", "b", "e">>
BuilderTypes ==
    {SimpleTy("String"), SimpleTy("u32"),
     GenericTy("Option", SimpleTy("String")), GenericTy("Option", SimpleTy("u32"))}
BuilderEntities ==
    UNION {{[k \in 1..n |-> Field(<<IdentNames[k]>>, tys[k], <<>>)] :
               tys \in [1..n -> BuilderTypes]} : n \in 1..MaxFields}

\* The generator runs: fields whose names collide once normalized, every
\* `into` override.
GenIdents == {<<"x">>, <<"_", "x">>, MaybePrefix \o <<"x">>, <<"y">>}
IntoOverrides == {<<>>, <<TRUE>>, <<FALSE>>}
GenFields == {Field(i, t, o) : i \in GenIdents, t \in BuilderTypes, o \in IntoOverrides}

\* The eligibility runs: paths of at most MaxSegs segments.
TypeParam(ident) == [kind |-> "Type", ident |-> ident]
LifetimeParam(ident) == [kind |-> "Lifetime", ident |-> ident]
ConstParam(ident) == [kind |-> "Const", ident |-> ident]
GenericsChoices ==
    {{}, {TypeParam("T")}, {TypeParam("u32")}, {TypeParam("T"), TypeParam("u32")},
     {ConstParam("T")}, {LifetimeParam("T"), TypeParam("String")}}
ArgForms ==
    {<<"None", <<>>>>, <<"Angle", <<>>>>, <<"Angle", <<SimpleTy("u32")>>>>,
     <<"Paren", <<>>>>}
LastSegs ==
    {Seg(i, f[1], f[2]) : i \in primitive_types \cup {"String", "T", "Vec", "std"},
                          f \in ArgForms}
InnerSegs ==
    {Seg(i, f[1], f[2]) : i \in {"std", "primitive", "T"},
                          f \in {<<"None", <<>>>>, <<"Angle", <<SimpleTy("u32")>>>>}}
Paths ==
    UNION {{inner \o <<last>> : inner \in [1..(k - 1) -> InnerSegs], last \in LastSegs} :
              k \in 1..MaxSegs}
IntoTypes ==
    {PathTy(q, c, segs) : q \in BOOLEAN, c \in BOOLEAN, segs \in Paths}
        \cup {OtherTy("Reference")}

NoImplBlock == [trait_ |-> FALSE, items |-> <<>>]

Idle ==
    /\ verdict = <<>>
    /\ impls = <<>>
    /\ state = <<>>
    /\ slots = <<>>
    /\ receiver = <<>>
    /\ calls = <<>>
    /\ result = <<>>
    /\ stages = <<>>

Init ==
    /\ pc = "input"
    /\ generics = {}
    /\ fields \in BuilderEntities
    /\ has_receiver \in BOOLEAN
    /\ impl_block = NoImplBlock
    /\ Idle

(***************************************************************************)
(* Actions.                                                                *)
(***************************************************************************)

\* The generator runs setter_methods_impls_for_field for every field.
GenerateSetters ==
    /\ pc = "input"
    /\ impls' = [k \in 1..Len(fields) |-> setter_methods_impls_for_field(Ctx, fields[k])]
    /\ pc' = "generated"
    /\ UNCHANGED <<generics, fields, has_receiver, verdict, state, slots, receiver,
                   calls, impl_block, result, stages>>

\* The start function: a builder with every field unset.
Start ==
    /\ pc = "generated"
    /\ \A k \in 1..Len(impls) : impls[k].ok
    /\ state' = [k \in 1..Len(fields) |-> unset_state_type(fields[k])]
    /\ slots' = [id \in {fields[k].ident : k \in 1..Len(fields)} |-> UnsetValue]
    /\ receiver' = IF has_receiver THEN SelfValue ELSE <<>>
    /\ calls' = [k \in 1..Len(fields) |-> <<>>]
    /\ pc' = "building"
    /\ UNCHANGED <<generics, fields, has_receiver, verdict, impls, impl_block,
                   result, stages>>

\* A call of one generated setter on the builder.
CallSetter ==
    /\ pc = "building"
    /\ \E i \in 1..Len(impls) :
         LET impl == impls[i].value[1] IN
         /\ BoundHolds(Ctx, state, impl.bound)
         /\ \E j \in 1..Len(impl.methods) :
              LET method == impl.methods[j] IN
              \E value \in Arguments(method.fn_params) :
                /\ state' = ResolveAlias(Ctx, state, impl.alias)
                /\ slots' = EvalStructLiteral(method, slots, value)
                /\ receiver' = IF method.receiver_field THEN receiver ELSE <<>>
                /\ calls' = [calls EXCEPT ![i] =
                                Append(@, [method_name |-> method.method_name,
                                           value |-> value,
                                           stored |-> EvalFieldInit(
                                               method.field_exprs[i].init, value)])]
    /\ UNCHANGED <<pc, generics, fields, has_receiver, verdict, impls, impl_block,
                   result, stages>>

\* The finishing operation.
Finish ==
    /\ pc = "building"
    /\ FinishBound(Ctx, state)
    /\ pc' = "finished"
    /\ UNCHANGED <<generics, fields, has_receiver, verdict, impls, state, slots,
                   receiver, calls, impl_block, result, stages>>

Next == GenerateSetters \/ Start \/ CallSetter \/ Finish

Spec == Init /\ [][Next]_vars

(***************************************************************************)
(* Eligibility alone: one field, one type.                                 *)
(***************************************************************************)
InitInto ==
    /\ pc = "input"
    /\ generics \in GenericsChoices
    /\ \E ty \in IntoTypes, into \in IntoOverrides : fields = <<Field(<<"x">>, ty, into)>>
    /\ has_receiver = FALSE
    /\ impl_block = NoImplBlock
    /\ Idle

\* setter_methods asks for the verdict on a field that is no Option.
QualifyField ==
    /\ pc = "input"
    /\ verdict' = <<field_qualifies_for_into(generics, fields[1], fields[1].ty)>>
    /\ pc' = "qualified"
    /\ UNCHANGED <<generics, fields, has_receiver, impls, state, slots, receiver,
                   calls, impl_block, result, stages>>

NextInto == QualifyField

SpecInto == InitInto /\ [][NextInto]_vars

(***************************************************************************)
(* Generation alone.                                                       *)
(***************************************************************************)
InitGen ==
    /\ pc = "input"
    /\ generics = {}
    /\ fields \in Entities(GenFields, MaxGenFields)
    /\ has_receiver = FALSE
    /\ impl_block = NoImplBlock
    /\ Idle

NextGen == GenerateSetters

SpecGen == InitGen /\ [][NextGen]_vars

(***************************************************************************)
(* item_impl.rs: generate on an impl block.                                *)
(***************************************************************************)

\* An attribute: its path, and whether it decodes as a list of parameters.
Attr(path, well_formed) == [path |-> path, well_formed |-> well_formed]

\* An item of the block: a function ("Fn") or anything else, its attributes,
\* its `default` keyword and, for a function, the fields its inputs make.
ImplItem(kind, attrs, defaultness, item_fields) ==
    [kind |-> kind, attrs |-> attrs, defaultness |-> defaultness, fields |-> item_fields]

TraitImplError == "Impls of traits are not supported yet"
NoBuilderFuncsError == "There are no #[builder] functions in the impl block"
DefaultFnError == "Default functions are not supported yet"
AttrError == "malformed #[builder] attribute"

\* Mutant: any attribute marks the function.
has_builder_attr_any(item) ==
    \E a \in 1..Len(item.attrs) : TRUE

\* attrs.iter().any(|attr| attr.path().is_ident("builder"))
has_builder_attr(item) ==
    \E a \in 1..Len(item.attrs) : item.attrs[a].path = "builder"

\* partition_map: TRUE for the items that go right (the builder functions)
is_builder_func(item) == item.kind = "Fn" /\ has_builder_attr(item)

\* The positions of the block's items that partition_map sends right (or
\* left), in the block's order.
FilterIndices(items, right) ==
    SelectSeq([k \in 1..Len(items) |-> k],
              LAMBDA k : is_builder_func(items[k]) = right)

other_items(block) == FilterIndices(block.items, FALSE)
builder_funcs(block) == FilterIndices(block.items, TRUE)

\* impl_item_fn_into_fn_item
impl_item_fn_into_fn_item(func) ==
    IF func.defaultness THEN ErrTokens(DefaultFnError) ELSE OkTokens(func)

\* The #[builder] attributes of the function decoded into FuncInputParams.
parse_meta(func) ==
    IF \E a \in 1..Len(func.attrs) :
           func.attrs[a].path = "builder" /\ ~func.attrs[a].well_formed
    THEN ErrTokens(AttrError)
    ELSE OkTokens("params")

\* The first failure among the results, as `?` returns it, or Ok(tokens).
first_error(results, tokens) ==
    IF \A n \in 1..Len(results) : results[n].ok
    THEN OkTokens(tokens)
    ELSE ErrTokens(results[CHOOSE n \in 1..Len(results) :
                               /\ ~results[n].ok
                               /\ \A m \in 1..(n - 1) : results[m].ok].error)

\* into_builder_gen_ctx()?.output()?: the builder of the function's fields,
\* which holds the setters of every field.
builder_output(func) ==
    first_error(
        [k \in 1..Len(func.fields) |->
            setter_methods_impls_for_field(
                [fields |-> func.fields, generics |-> {}, receiver |-> FALSE,
                 builder_ident |-> <<"B">>],
                func.fields[k])],
        "builder")

\* The closure of generate's map: one (orig_item, norm_item) pair, which is
\* the k-th item of the block given. Its steps fail in this order.
process_builder_func(block, k) ==
    first_error(
        <<impl_item_fn_into_fn_item(block.items[k]),
          parse_meta(block.items[k]),
          builder_output(block.items[k])>>,
        [start_func |-> [kind |-> "start_func", of |-> k],
         adapted_func |-> [kind |-> "adapted_func", of |-> k],
         other_items |-> [kind |-> "builder_types", of |-> k]])

\* try_collect: the results up to and including the first failure; the
\* functions after it are not processed.
up_to_first_failure(results) ==
    IF \A n \in 1..Len(results) : results[n].ok
    THEN results
    ELSE SubSeq(results, 1, CHOOSE n \in 1..Len(results) :
                                /\ ~results[n].ok
                                /\ \A m \in 1..(n - 1) : results[m].ok)

try_collect(block, funcs) ==
    up_to_first_failure([n \in 1..Len(funcs) |-> process_builder_func(block, funcs[n])])

\* new_impl_items: flat_map over the outputs, [start_func, adapted_func] of each
new_impl_items(outputs) ==
    [m \in 1..(2 * Len(outputs)) |->
        IF m % 2 = 1
        THEN outputs[(m + 1) \div 2].value[1].start_func
        ELSE outputs[m \div 2].value[1].adapted_func]

\* The rest of generate once the builder functions are processed.
reassemble(left, outputs) ==
    IF ~outputs[Len(outputs)].ok
    THEN [result |-> ErrTokens(outputs[Len(outputs)].error),
          stages |-> <<"trait_check", "partition", "normalize">>
                         \o [n \in 1..Len(outputs) |-> "builder_func"]]
    ELSE [result |-> OkTokens(
             [other_items |-> [n \in 1..Len(outputs) |-> outputs[n].value[1].other_items],
              items |-> [n \in 1..Len(left) |-> [kind |-> "item", of |-> left[n]]]
                            \o new_impl_items(outputs)]),
          stages |-> <<"trait_check", "partition", "normalize">>
                         \o [n \in 1..Len(outputs) |-> "builder_func"]
                         \o <<"reassemble">>]

\* generate: what it returns and the stages it went through.
generate(block) ==
    IF block.trait_
    THEN [result |-> ErrTokens(TraitImplError), stages |-> <<"trait_check">>]
    ELSE IF builder_funcs(block) = <<>>
    THEN [result |-> ErrTokens(NoBuilderFuncsError),
          stages |-> <<"trait_check", "partition">>]
    ELSE reassemble(other_items(block), try_collect(block, builder_funcs(block)))

\* The items of the blocks given to generate.
OkField == Field(<<"x">>, SimpleTy("String"), <<>>)
RedundantField == Field(<<"x">>, SimpleTy("String"), <<TRUE>>)
ItemChoices ==
    {ImplItem("Const", <<>>, FALSE, <<>>),
     ImplItem("Const", <<Attr("builder", TRUE)>>, FALSE, <<>>),
     ImplItem("Fn", <<>>, FALSE, <<>>),
     ImplItem("Fn", <<Attr("inline", TRUE)>>, TRUE, <<>>),
     ImplItem("Fn", <<Attr("builder", TRUE)>>, FALSE, <<OkField>>),
     ImplItem("Fn", <<Attr("inline", TRUE), Attr("builder", TRUE)>>, FALSE, <<>>),
     ImplItem("Fn", <<Attr("builder", TRUE)>>, TRUE, <<OkField>>),
     ImplItem("Fn", <<Attr("builder", FALSE)>>, FALSE, <<OkField>>),
     ImplItem("Fn", <<Attr("builder", TRUE)>>, FALSE, <<OkField, RedundantField>>)}

InitImpl ==
    /\ pc = "input"
    /\ generics = {}
    /\ fields = <<>>
    /\ has_receiver = FALSE
    /\ \E t \in BOOLEAN, n \in 0..MaxItems :
         \E items \in [1..n -> ItemChoices] :
           impl_block = [trait_ |-> t, items |-> items]
    /\ Idle

Returned(generated) ==
    /\ result' = <<generated.result>>
    /\ stages' = generated.stages

Generate ==
    /\ pc = "input"
    /\ Returned(generate(impl_block))
    /\ pc' = "done"
    /\ UNCHANGED <<generics, fields, has_receiver, verdict, impls, state, slots,
                   receiver, calls, impl_block>>

NextImpl == Generate

SpecImpl == InitImpl /\ [][NextImpl]_vars

(***************************************************************************)
(* Properties.                                                             *)
(***************************************************************************)

AllFieldsCalled == \A k \in 1..Len(fields) : calls[k] # <<>>

\* C1: the finishing operation is enabled exactly in the states where all N
\* positions are Set, which are exactly the states where every field has had
\* one of its setters called (for an optional field the primary or the maybe_
\* setter); with a field still Unset it is not enabled.
C1_FinishIffAllSet ==
    /\ pc = "building" =>
         /\ FinishBound(Ctx, state) <=> \A k \in 1..Len(fields) : state[k].kind = "Set"
         /\ FinishBound(Ctx, state) <=> AllFieldsCalled
         /\ (\E k \in 1..Len(fields) : state[k] = UnsetMarker) => ~ENABLED Finish
    /\ pc = "finished" => AllFieldsCalled

C1_Witness ==
    /\ pc = "finished"
    /\ Len(fields) = 3
    /\ \E k \in 1..3 : as_optional(fields[k]) # <<>> /\ calls[k][1].value = NoneValue
    /\ \E k \in 1..3 : as_optional(fields[k]) # <<>> /\ calls[k][1].value = <<"v1">>

\* C2: for every field f_i of an entity of N fields, the state tuple of the
\* setter's return type has length N, its position i is the Set marker of
\* f_i's declared type and every other position j is __State's associated
\* marker of f_j, at index j.
C2_ReturnStateTuple ==
    pc # "input" =>
        \A i \in 1..Len(impls) :
            impls[i].ok =>
                LET tuple == impls[i].value[1].alias.tuple IN
                /\ Len(tuple) = Len(fields)
                /\ tuple[i] = SetMarker(fields[i].ty)
                /\ \A j \in 1..Len(fields) :
                       j # i => tuple[j] = AssocMarker(fields[j].state_assoc_type_ident)

C2_Witness ==
    /\ pc = "generated"
    /\ Len(fields) = 3
    /\ fields[1].ty # fields[2].ty
    /\ impls[2].ok
    /\ impls[2].value[1].alias.tuple[2] = SetMarker(GenericTy("Option", SimpleTy("u32")))

\* C3: a setter of field F (primary or maybe_) is called only where F's
\* position is Unset and F has not been set; a Set position stays as it is.
C3_SetAtMostOnce ==
    [][pc = "building" =>
          \A k \in 1..Len(fields) :
              /\ calls'[k] # calls[k] => state[k] = UnsetMarker /\ calls[k] = <<>>
              /\ state[k].kind = "Set" => state'[k] = state[k]]_vars

C3_Witness ==
    /\ pc = "building"
    /\ Len(fields) = 2
    /\ state[1].kind = "Set"
    /\ calls[1] # <<>>
    /\ calls[1][1].method_name = MaybePrefix \o fields[1].ident
    /\ state[2] = UnsetMarker
    /\ ~BoundHolds(Ctx, state, impls[1].value[1].bound)

\* The 16 primitive names of C4.
C4_Primitives ==
    {"bool", "char", "f32", "f64", "isize", "usize"}
        \cup {"i8", "i16", "i32", "i64", "i128"}
        \cup {"u8", "u16", "u32", "u64", "u128"}

C4_Eligible(gen, ty) ==
    /\ ty.kind = "Path"
    /\ ~ty.qself
    /\ \A k \in 1..Len(ty.segs) : ty.segs[k].brackets # "Paren" /\ ty.segs[k].args = <<>>
    /\ ~(/\ ~ty.colon
         /\ Len(ty.segs) = 1
         /\ ty.segs[1].brackets = "None"
         /\ \E p \in gen : p.kind = "Type" /\ p.ident = ty.segs[1].ident)
    /\ ty.segs[Len(ty.segs)].ident \notin C4_Primitives

\* C4: with no override the verdict is true exactly for a plain type path with
\* no qself, no generic arguments on any segment, that is not a bare type
\* parameter of the entity and whose last segment is none of the 16 primitive
\* names; Vec<u32>, u32 and a bare T are not eligible, String is.
C4_DefaultRule ==
    /\ Cardinality(C4_Primitives) = 16
    /\ pc = "qualified" /\ fields[1].into = <<>> =>
           verdict[1] = OkBool(C4_Eligible(generics, fields[1].ty))
    /\ ~type_qualifies_for_into({}, GenericTy("Vec", SimpleTy("u32")))
    /\ ~type_qualifies_for_into({}, SimpleTy("u32"))
    /\ ~type_qualifies_for_into({TypeParam("T")}, SimpleTy("T"))
    /\ type_qualifies_for_into({TypeParam("T")}, SimpleTy("String"))

C4_Witness ==
    /\ pc = "qualified"
    /\ fields[1].into = <<>>
    /\ fields[1].ty = PathTy(FALSE, FALSE, <<Seg("primitive", "None", <<>>),
                                             Seg("u32", "None", <<>>)>>)
    /\ verdict[1] = OkBool(FALSE)

\* C5: with no override the result is the default rule's answer, never an
\* error; an override that differs from the default answer is the result; an
\* override equal to the default answer is a redundant-configuration error.
C5_OverrideResolution ==
    pc = "qualified" =>
        LET into == fields[1].into
            default == C4_Eligible(generics, fields[1].ty)
        IN  /\ into = <<>> => verdict[1] = OkBool(default)
            /\ into # <<>> /\ into[1] # default => verdict[1] = OkBool(into[1])
            /\ into # <<>> /\ into[1] = default =>
                   /\ ~verdict[1].ok
                   /\ verdict[1].error = IF default
                                         THEN "redundant: already qualifies"
                                         ELSE "redundant: already doesn't qualify"
            /\ into # <<>> /\ verdict[1].ok => verdict[1].value = ~default
            /\ fields[1].ty = SimpleTy("String") /\ generics = {} =>
                   /\ into = <<TRUE>> => ~verdict[1].ok
                   /\ into = <<FALSE>> => verdict[1] = OkBool(FALSE)

C5_Witness ==
    /\ pc = "qualified"
    /\ generics = {}
    /\ fields[1].ty = SimpleTy("String")
    /\ fields[1].into = <<TRUE>>
    /\ ~verdict[1].ok

C6_Norm(ident) == IF Head(ident) = "_" THEN Tail(ident) ELSE ident

C6_Stores(method, k, value) == EvalFieldInit(method.field_exprs[k].init, value)

\* C6: a field that is no Option yields one setter, named by the normalized
\* identifier, taking T or impl Into<T> per the verdict on T. An Option<T>
\* field yields two: the primary, named by the normalized identifier, takes T
\* or impl Into<T> and stores Some(value); the secondary, maybe_<name>, takes
\* Option<T> or Option<impl Into<T>> and converts a present value only; both
\* use the one verdict on T. (Setters are generated when there is a verdict.)
C6_SetterSynthesis ==
    pc = "generated" =>
        \A k \in 1..Len(fields) :
            LET f == fields[k]
                T == IF as_optional(f) # <<>> THEN as_optional(f)[1] ELSE f.ty
                v == field_qualifies_for_into(generics, f, T)
                conv(x) == IF v.value THEN IntoOf(x) ELSE x
                ms == impls[k].value[1].methods
            IN  /\ impls[k].ok = v.ok
                /\ v.ok /\ as_optional(f) = <<>> =>
                       /\ Len(ms) = 1
                       /\ ms[1].method_name = C6_Norm(f.ident)
                       /\ ms[1].fn_params = ParamTy(FALSE, v.value, f.ty)
                       /\ \A x \in Values :
                              C6_Stores(ms[1], k, <<x>>) = SetNew(conv(<<x>>))
                /\ v.ok /\ as_optional(f) # <<>> =>
                       /\ Len(ms) = 2
                       /\ \E p, s \in 1..2 :
                              /\ p # s
                              /\ ms[p].method_name = C6_Norm(f.ident)
                              /\ ms[p].fn_params = ParamTy(FALSE, v.value, T)
                              /\ \A x \in Values :
                                     C6_Stores(ms[p], k, <<x>>) = SetNew(SomeOf(conv(<<x>>)))
                              /\ ms[s].method_name = MaybePrefix \o C6_Norm(f.ident)
                              /\ ms[s].fn_params = ParamTy(TRUE, v.value, T)
                              /\ C6_Stores(ms[s], k, NoneValue) = SetNew(NoneValue)
                              /\ \A x \in Values :
                                     C6_Stores(ms[s], k, SomeOf(<<x>>))
                                         = SetNew(SomeOf(conv(<<x>>)))

C6_Witness ==
    /\ pc = "generated"
    /\ Len(fields) = 2
    /\ fields[1] = Field(<<"_", "x">>, GenericTy("Option", SimpleTy("String")), <<>>)
    /\ fields[2] = Field(<<"y">>, SimpleTy("u32"), <<TRUE>>)
    /\ impls[1].ok
    /\ impls[2].ok
    /\ Len(impls[1].value[1].methods) = 2
    /\ impls[2].value[1].methods[1].fn_params = ParamTy(FALSE, TRUE, SimpleTy("u32"))

NoBuilderMethod ==
    \A k \in 1..Len(impl_block.items) :
        ~(/\ impl_block.items[k].kind = "Fn"
          /\ \E a \in 1..Len(impl_block.items[k].attrs) :
                 impl_block.items[k].attrs[a].path = "builder")

\* C7, as stated: generate on a block with no builder-marked method always
\* fails with the "no #[builder] functions" diagnostic.
C7_AlwaysNoBuilderFuncs ==
    pc = "done" /\ NoBuilderMethod => result[1] = ErrTokens(NoBuilderFuncsError)

\* C7, amended: generate on a block with no builder-marked method never
\* produces output; on a block that is no trait impl it fails with the
\* "no #[builder] functions" diagnostic, decided before normalization and
\* before any method is processed; on a trait impl it fails with the
\* "impls of traits are not supported" diagnostic before partitioning.
C7_NoBuilderFuncs ==
    pc = "done" /\ NoBuilderMethod =>
        IF impl_block.trait_
        THEN result[1] = ErrTokens(TraitImplError) /\ stages = <<"trait_check">>
        ELSE /\ result[1] = ErrTokens(NoBuilderFuncsError)
             /\ stages = <<"trait_check", "partition">>

C7_Witness ==
    /\ pc = "done"
    /\ ~impl_block.trait_
    /\ Len(impl_block.items) = 2
    /\ impl_block.items[1] = ImplItem("Const", <<Attr("builder", TRUE)>>, FALSE, <<>>)
    /\ impl_block.items[2] = ImplItem("Fn", <<Attr("inline", TRUE)>>, TRUE, <<>>)
    /\ result[1] = ErrTokens(NoBuilderFuncsError)

\* C8: a failure while processing one builder-marked method does not affect
\* its siblings: every marked method whose own processing succeeds has its
\* start function and adapted function in the output.
C8_SiblingIsolation ==
    pc = "done" /\ ~impl_block.trait_ =>
        \A k \in 1..Len(impl_block.items) :
            is_builder_func(impl_block.items[k])
                /\ process_builder_func(impl_block, k).ok =>
                    /\ result[1].ok
                    /\ \E n \in 1..Len(result[1].value[1].items) :
                           result[1].value[1].items[n] = [kind |-> "start_func", of |-> k]

SetterNames ==
    {<<k, j>> \in (1..Len(impls)) \X (1..2) :
        impls[k].ok /\ j <= Len(impls[k].value[1].methods)}

\* C9: the setter names generated for an entity whose fields have pairwise
\* distinct identifiers are pairwise distinct; a field list whose normalized
\* names would collide is rejected.
C9_SetterNamesDistinct ==
    pc = "generated" /\ (\A k \in 1..Len(impls) : impls[k].ok) =>
        \A a, b \in SetterNames :
            a # b => impls[a[1]].value[1].methods[a[2]].method_name
                         # impls[b[1]].value[1].methods[b[2]].method_name

\* C10: after any sequence of setter calls the slot of every field that was
\* set holds the value its one call stored, the slot of every other field is
\* as the start function left it, and the receiver is the one the builder
\* started with.
C10_Frame ==
    pc \in {"building", "finished"} =>
        /\ \A k \in 1..Len(fields) :
               slots[fields[k].ident] =
                   IF calls[k] = <<>> THEN UnsetValue ELSE calls[k][1].stored
        /\ receiver = IF has_receiver THEN SelfValue ELSE <<>>

C10_Witness ==
    /\ pc = "building"
    /\ has_receiver
    /\ Len(fields) = 3
    /\ AllFieldsCalled
    /\ slots[fields[1].ident] = SetNew(SomeOf(IntoOf(<<"v1">>)))
    /\ slots[fields[2].ident] = SetNew(<<"v2">>)
    /\ slots[fields[3].ident] = SetNew(NoneValue)

====
